---- MODULE Spec2Model ----
(***************************************************************************)
(* Model of salsa-2022's InternedIngredient (src/interned.rs): a           *)
(* concurrent interning table made of two sharded maps (key_map: data ->   *)
(* id, value_map: id -> data), an atomic u32 id counter and the revision   *)
(* of the last reset.  Every thread executes intern / data one shared-     *)
(* memory access at a time; reset takes &mut self and is therefore one     *)
(* step that runs only while no other call is in progress.                 *)
(***************************************************************************)
EXTENDS Naturals, FiniteSets, Sequences, TLC

(* ------------------------------ bounds --------------------------------- *)

\* Number of caller threads sharing the ingredient.
NumThreads == 2

\* Number of distinct data values the callers intern (values 1..NumValues).
NumValues == 3

\* Range of the id counter: stands for 2^32 of AtomicCell<u32>; fetch_add
\* wraps modulo this range.
IdRange == 2

\* Largest revision a caller passes to reset / maybe_changed_after.
MaxRevision == 1

\* Number of shards of each DashMap.
NumShards == 2

(* ------------------------------ domains -------------------------------- *)

Threads == 1..NumThreads

Values == 1..NumValues

Ids == 0..(IdRange - 1)

\* Revision::start(): the revision a fresh ingredient is created in.
RevisionStart == 0

Revisions == RevisionStart..MaxRevision

NoThread == 0

NoValue == 0

NoId == IdRange

Panicked == IdRange + 1

EmptyMap == [x \in {} |-> 0]

(* ------------------------------ state ---------------------------------- *)

VARIABLES
  key_map,      \* FxDashMap<Data, Id>: function from a set of values to ids
  value_map,    \* FxDashMap<Id, Box<Data>>: function from a set of ids to values
  counter,      \* AtomicCell<u32>: the next id
  reset_at,     \* Revision of the last reset
  key_lock,     \* per key_map shard: the thread holding its write lock
  value_lock,   \* per value_map shard: the threads holding its read lock
  pc,           \* per thread: position inside intern / data
  data,         \* per thread: the argument of the call in progress
  next_id,      \* per thread: local next_id of intern (line 99)
  old_value,    \* per thread: local old_value of intern (line 101), NoValue for None
  reads,        \* per thread: tracked reads reported by the call in progress
  post_wrap,    \* history, per thread: next_id was fetched after the counter wrapped
  wrapped,      \* history: the counter has handed out its whole range
  returned,     \* history: <<value, id>> pairs intern returned since the last reset
  retired,      \* history: <<value, id>> pairs key_map held at some earlier reset
  allocated,    \* history: ids fetch_add has handed out so far
  resets,       \* history: revisions of the successful resets
  recorded,     \* history: <<changed_at, resets so far>> of every tracked read reported
  event         \* history: the last call that completed

vars == <<key_map, value_map, counter, reset_at, key_lock, value_lock, pc, data,
          next_id, old_value, reads, post_wrap, wrapped, returned, retired,
          allocated, resets, recorded, event>>

table == <<key_map, value_map, counter, reset_at>>

locals == <<pc, data, next_id, old_value, reads, post_wrap>>

history == <<wrapped, returned, retired, allocated, resets>>

(* ------------------------------ helpers -------------------------------- *)

\* DashMap picks the shard of a key from its hash.
key_shard(v) == v % NumShards

value_shard(i) == i % NumShards

\* DashMap::insert / VacantEntry::insert: the map with k bound to x.
map_insert(m, k, x) == [y \in (DOMAIN m) \cup {k} |-> IF y = k THEN x ELSE m[y]]

\* AtomicCell<u32>::fetch_add(1): wrapping addition.
fetch_add(c) == (c + 1) % IdRange

\* Id::from_id(Id::from_u32(next_id)): the opaque handle of a counter value.
from_u32(x) == x

\* runtime.report_tracked_read(for_table(ingredient_index), Durability::MAX, reset_at)
tracked_read ==
  [index |-> "for_table(ingredient_index)", durability |-> "MAX",
   changed_at |-> reset_at]

\* Mutant of maybe_changed_after: the comparison is not strict.
maybe_changed_after_le(revision) == revision <= reset_at

\* Ingredient::maybe_changed_after
maybe_changed_after(revision) == revision < reset_at

Pairs(m) == {<<k, m[k]>> : k \in DOMAIN m}

Idle == \A t \in Threads : pc[t] = "idle"

(* ------------------------------ Init ----------------------------------- *)

\* InternedIngredient::new
Init ==
  /\ key_map = EmptyMap
  /\ value_map = EmptyMap
  /\ counter = 0
  /\ reset_at = RevisionStart
  /\ key_lock = [s \in 0..(NumShards - 1) |-> NoThread]
  /\ value_lock = [s \in 0..(NumShards - 1) |-> {}]
  /\ pc = [t \in Threads |-> "idle"]
  /\ data = [t \in Threads |-> NoValue]
  /\ next_id = [t \in Threads |-> NoId]
  /\ old_value = [t \in Threads |-> NoValue]
  /\ reads = [t \in Threads |-> <<>>]
  /\ post_wrap = [t \in Threads |-> FALSE]
  /\ wrapped = FALSE
  /\ returned = {}
  /\ retired = {}
  /\ allocated = {}
  /\ resets = {}
  /\ recorded = {}
  /\ event = [op |-> "new", arg |-> 0, out |-> 0, path |-> "none"]

(* ------------------------------ intern --------------------------------- *)

\* A call leaves the thread's frame: locals are dropped.
Leave(t) ==
  /\ pc' = [pc EXCEPT ![t] = "idle"]
  /\ data' = [data EXCEPT ![t] = NoValue]
  /\ next_id' = [next_id EXCEPT ![t] = NoId]
  /\ old_value' = [old_value EXCEPT ![t] = NoValue]
  /\ reads' = [reads EXCEPT ![t] = <<>>]
  /\ post_wrap' = [post_wrap EXCEPT ![t] = FALSE]

\* Mutant of InternReport: intern goes to the maps without reporting the read.
InternReport_NoRead(t, v) ==
  /\ pc[t] = "idle"
  /\ pc' = [pc EXCEPT ![t] = "intern_get"]
  /\ data' = [data EXCEPT ![t] = v]
  /\ UNCHANGED <<table, key_lock, value_lock, next_id, old_value, post_wrap,
                 reads, recorded, history, event>>

\* intern is entered with data v and reports the tracked read (lines 79-84).
InternReport(t, v) ==
  /\ pc[t] = "idle"
  /\ pc' = [pc EXCEPT ![t] = "intern_get"]
  /\ data' = [data EXCEPT ![t] = v]
  /\ reads' = [reads EXCEPT ![t] = Append(reads[t], tracked_read)]
  /\ recorded' = recorded \cup {<<tracked_read.changed_at, resets>>}
  /\ UNCHANGED <<table, key_lock, value_lock, next_id, old_value, post_wrap,
                 history, event>>

\* Mutant of InternGet: the id is drawn from the counter before the lookup,
\* so a hit wastes a counter value.
InternGet_FetchFirst(t) ==
  /\ pc[t] = "intern_get"
  /\ key_lock[key_shard(data[t])] = NoThread
  /\ IF data[t] \in DOMAIN key_map
       THEN /\ Leave(t)
            /\ counter' = fetch_add(counter)
            /\ returned' = returned \cup {<<data[t], key_map[data[t]]>>}
            /\ event' = [op |-> "intern", arg |-> data[t],
                         out |-> key_map[data[t]], path |-> "get"]
       ELSE /\ pc' = [pc EXCEPT ![t] = "intern_entry"]
            /\ UNCHANGED <<counter, data, next_id, old_value, reads, post_wrap,
                           returned, event>>
  /\ UNCHANGED <<recorded, key_map, value_map, reset_at, key_lock, value_lock,
                 wrapped, retired, allocated, resets>>

\* key_map.get under the shard's read lock (lines 89-91): a hit returns the id.
InternGet(t) ==
  /\ pc[t] = "intern_get"
  /\ key_lock[key_shard(data[t])] = NoThread
  /\ IF data[t] \in DOMAIN key_map
       THEN /\ Leave(t)
            /\ returned' = returned \cup {<<data[t], key_map[data[t]]>>}
            /\ event' = [op |-> "intern", arg |-> data[t],
                         out |-> key_map[data[t]], path |-> "get"]
       ELSE /\ pc' = [pc EXCEPT ![t] = "intern_entry"]
            /\ UNCHANGED <<data, next_id, old_value, reads, post_wrap,
                           returned, event>>
  /\ UNCHANGED <<recorded, table, key_lock, value_lock, wrapped, retired, allocated,
                 resets>>

\* Mutant of InternEntry: the entry is taken for vacant without looking at
\* what a racing call published.
InternEntry_NoRecheck(t) ==
  /\ pc[t] = "intern_entry"
  /\ key_lock[key_shard(data[t])] = NoThread
  /\ pc' = [pc EXCEPT ![t] = "intern_fetch_add"]
  /\ key_lock' = [key_lock EXCEPT ![key_shard(data[t])] = t]
  /\ UNCHANGED <<recorded, table, value_lock, data, next_id, old_value, reads,
                 post_wrap, history, event>>

\* Mutant of InternEntry: the vacancy is tested but the entry (and with it
\* the shard's write lock) is not kept for the allocation.
InternEntry_NoLock(t) ==
  /\ pc[t] = "intern_entry"
  /\ key_lock[key_shard(data[t])] = NoThread
  /\ IF data[t] \in DOMAIN key_map
       THEN /\ Leave(t)
            /\ returned' = returned \cup {<<data[t], key_map[data[t]]>>}
            /\ event' = [op |-> "intern", arg |-> data[t],
                         out |-> key_map[data[t]], path |-> "occupied"]
       ELSE /\ pc' = [pc EXCEPT ![t] = "intern_fetch_add"]
            /\ UNCHANGED <<data, next_id, old_value, reads, post_wrap,
                           returned, event>>
  /\ UNCHANGED <<recorded, table, key_lock, value_lock, wrapped, retired,
                 allocated, resets>>

\* key_map.entry takes the shard's write lock (line 93); an Occupied entry
\* returns the racing call's id and drops the lock (line 95), a Vacant
\* entry keeps the lock (line 98).
InternEntry(t) ==
  /\ pc[t] = "intern_entry"
  /\ key_lock[key_shard(data[t])] = NoThread
  /\ IF data[t] \in DOMAIN key_map
       THEN /\ Leave(t)
            /\ returned' = returned \cup {<<data[t], key_map[data[t]]>>}
            /\ event' = [op |-> "intern", arg |-> data[t],
                         out |-> key_map[data[t]], path |-> "occupied"]
            /\ UNCHANGED key_lock
       ELSE /\ pc' = [pc EXCEPT ![t] = "intern_fetch_add"]
            /\ key_lock' = [key_lock EXCEPT ![key_shard(data[t])] = t]
            /\ UNCHANGED <<data, next_id, old_value, reads, post_wrap,
                           returned, event>>
  /\ UNCHANGED <<recorded, table, value_lock, wrapped, retired, allocated, resets>>

\* let next_id = self.counter.fetch_add(1) (lines 99-100).
InternFetchAdd(t) ==
  /\ pc[t] = "intern_fetch_add"
  /\ next_id' = [next_id EXCEPT ![t] = from_u32(counter)]
  /\ counter' = fetch_add(counter)
  /\ pc' = [pc EXCEPT ![t] = "intern_value_insert"]
  /\ post_wrap' = [post_wrap EXCEPT ![t] = wrapped]
  /\ wrapped' = (wrapped \/ counter = IdRange - 1)
  /\ allocated' = allocated \cup {counter}
  /\ UNCHANGED <<recorded, key_map, value_map, reset_at, key_lock, value_lock, data,
                 old_value, reads, returned, retired, resets, event>>

\* let old_value = self.value_map.insert(next_id, Box::new(data)) (line 101):
\* insert replaces the entry of next_id and hands back the value it held.
InternValueInsert(t) ==
  /\ pc[t] = "intern_value_insert"
  /\ value_lock[value_shard(next_id[t])] = {}
  /\ old_value' = [old_value EXCEPT ![t] =
                     IF next_id[t] \in DOMAIN value_map
                       THEN value_map[next_id[t]] ELSE NoValue]
  /\ value_map' = map_insert(value_map, next_id[t], data[t])
  /\ pc' = [pc EXCEPT ![t] = "intern_assert"]
  /\ UNCHANGED <<recorded, key_map, counter, reset_at, key_lock, value_lock, data,
                 next_id, reads, post_wrap, history, event>>

\* Mutant of InternPublish: the uniqueness assertion is missing.
InternPublish_NoAssert(t) ==
  /\ pc[t] = "intern_assert"
  /\ key_lock' = [key_lock EXCEPT ![key_shard(data[t])] = NoThread]
  /\ Leave(t)
  /\ key_map' = map_insert(key_map, data[t], next_id[t])
  /\ returned' = returned \cup {<<data[t], next_id[t]>>}
  /\ event' = [op |-> "intern", arg |-> data[t], out |-> next_id[t],
               path |-> IF post_wrap[t] THEN "vacant_wrapped" ELSE "vacant"]
  /\ UNCHANGED <<recorded, value_map, counter, reset_at, value_lock, wrapped, retired,
                 allocated, resets>>

\* assert!(old_value.is_none()) (lines 102-105), then entry.insert(next_id)
\* and the return of next_id (lines 106-107); a failed assertion unwinds
\* and drops the vacant entry, which releases the shard.
InternPublish(t) ==
  /\ pc[t] = "intern_assert"
  /\ key_lock' = [key_lock EXCEPT ![key_shard(data[t])] = NoThread]
  /\ Leave(t)
  /\ IF old_value[t] = NoValue
       THEN /\ key_map' = map_insert(key_map, data[t], next_id[t])
            /\ returned' = returned \cup {<<data[t], next_id[t]>>}
            /\ event' = [op |-> "intern", arg |-> data[t], out |-> next_id[t],
                         path |-> IF post_wrap[t] THEN "vacant_wrapped"
                                                  ELSE "vacant"]
       ELSE /\ event' = [op |-> "intern", arg |-> data[t], out |-> Panicked,
                         path |-> IF post_wrap[t] THEN "vacant_wrapped"
                                                  ELSE "vacant"]
            /\ UNCHANGED <<key_map, returned>>
  /\ UNCHANGED <<recorded, value_map, counter, reset_at, value_lock, wrapped, retired,
                 allocated, resets>>

(* ------------------------------ reset ---------------------------------- *)

\* Mutant of Reset: the assertion on the revision is missing.
Reset_NoAssert(revision) ==
  /\ Idle
  /\ reset_at' = revision
  /\ key_map' = EmptyMap
  /\ value_map' = EmptyMap
  /\ returned' = {}
  /\ retired' = retired \cup Pairs(key_map)
  /\ resets' = resets \cup {revision}
  /\ event' = [op |-> "reset", arg |-> revision, out |-> 0, path |-> "none"]
  /\ UNCHANGED <<recorded, counter, key_lock, value_lock, locals, wrapped, allocated>>

\* Mutant of Reset: reset takes &self and runs beside calls in progress.
Reset_NotExclusive(revision) ==
  /\ IF revision > reset_at
       THEN /\ reset_at' = revision
            /\ key_map' = EmptyMap
            /\ value_map' = EmptyMap
            /\ returned' = {}
            /\ retired' = retired \cup Pairs(key_map)
            /\ resets' = resets \cup {revision}
            /\ event' = [op |-> "reset", arg |-> revision, out |-> 0,
                         path |-> "none"]
       ELSE /\ event' = [op |-> "reset", arg |-> revision, out |-> Panicked,
                         path |-> "none"]
            /\ UNCHANGED <<key_map, value_map, reset_at, returned, retired,
                           resets>>
  /\ UNCHANGED <<recorded, counter, key_lock, value_lock, locals, wrapped,
                 allocated>>

\* Mutant of Reset: the maps are cleared but reset_at is not advanced.
Reset_KeepRevision(revision) ==
  /\ Idle
  /\ IF revision > reset_at
       THEN /\ key_map' = EmptyMap
            /\ value_map' = EmptyMap
            /\ returned' = {}
            /\ retired' = retired \cup Pairs(key_map)
            /\ resets' = resets \cup {revision}
            /\ event' = [op |-> "reset", arg |-> revision, out |-> 0,
                         path |-> "none"]
       ELSE /\ event' = [op |-> "reset", arg |-> revision, out |-> Panicked,
                         path |-> "none"]
            /\ UNCHANGED <<key_map, value_map, returned, retired, resets>>
  /\ UNCHANGED <<recorded, reset_at, counter, key_lock, value_lock, locals,
                 wrapped, allocated>>

\* reset(&mut self, revision) (lines 112-117): exclusive access, so no
\* intern or data call is in progress.
Reset(revision) ==
  /\ Idle
  /\ IF revision > reset_at
       THEN /\ reset_at' = revision
            /\ key_map' = EmptyMap
            /\ value_map' = EmptyMap
            /\ returned' = {}
            /\ retired' = retired \cup Pairs(key_map)
            /\ resets' = resets \cup {revision}
            /\ event' = [op |-> "reset", arg |-> revision, out |-> 0,
                         path |-> "none"]
       ELSE /\ event' = [op |-> "reset", arg |-> revision, out |-> Panicked,
                         path |-> "none"]
            /\ UNCHANGED <<key_map, value_map, reset_at, returned, retired,
                           resets>>
  /\ UNCHANGED <<recorded, counter, key_lock, value_lock, locals, wrapped, allocated>>

(* ------------------------------ data ----------------------------------- *)

\* data is entered with an id and reports the tracked read (lines 120-125).
DataReport(t, id) ==
  /\ pc[t] = "idle"
  /\ pc' = [pc EXCEPT ![t] = "data_get"]
  /\ data' = [data EXCEPT ![t] = id]
  /\ reads' = [reads EXCEPT ![t] = Append(reads[t], tracked_read)]
  /\ recorded' = recorded \cup {<<tracked_read.changed_at, resets>>}
  /\ UNCHANGED <<table, key_lock, value_lock, next_id, old_value, post_wrap,
                 history, event>>

\* Mutant of DataGet: an unknown id is a miss that returns no value, not a
\* panic.
DataGet_NoPanic(t) ==
  /\ pc[t] = "data_get"
  /\ IF data[t] \in DOMAIN value_map
       THEN /\ pc' = [pc EXCEPT ![t] = "data_return"]
            /\ value_lock' = [value_lock EXCEPT ![value_shard(data[t])] = @ \cup {t}]
            /\ UNCHANGED <<data, next_id, old_value, reads, post_wrap, event>>
       ELSE /\ Leave(t)
            /\ event' = [op |-> "data", arg |-> data[t], out |-> NoValue,
                         path |-> "none"]
            /\ UNCHANGED value_lock
  /\ UNCHANGED <<recorded, table, key_lock, history>>

\* self.value_map.get(&id) (lines 127-132): the guard of a found entry keeps
\* the shard's read lock; an unknown id panics.
DataGet(t) ==
  /\ pc[t] = "data_get"
  /\ IF data[t] \in DOMAIN value_map
       THEN /\ pc' = [pc EXCEPT ![t] = "data_return"]
            /\ value_lock' = [value_lock EXCEPT ![value_shard(data[t])] = @ \cup {t}]
            /\ UNCHANGED <<data, next_id, old_value, reads, post_wrap, event>>
       ELSE /\ Leave(t)
            /\ event' = [op |-> "data", arg |-> data[t], out |-> Panicked,
                         path |-> "none"]
            /\ UNCHANGED value_lock
  /\ UNCHANGED <<recorded, table, key_lock, history>>

\* Mutant of DataReturn: the guard is leaked, its read lock never released.
DataReturn_KeepGuard(t) ==
  /\ pc[t] = "data_return"
  /\ Leave(t)
  /\ event' = [op |-> "data", arg |-> data[t], out |-> value_map[data[t]],
               path |-> "none"]
  /\ UNCHANGED <<recorded, table, key_lock, value_lock, history>>

\* The reference into the boxed value is returned and the guard dropped
\* (lines 137-138).
DataReturn(t) ==
  /\ pc[t] = "data_return"
  /\ Leave(t)
  /\ value_lock' = [value_lock EXCEPT ![value_shard(data[t])] = @ \ {t}]
  /\ event' = [op |-> "data", arg |-> data[t], out |-> value_map[data[t]],
               path |-> "none"]
  /\ UNCHANGED <<recorded, table, key_lock, history>>

(* ------------------------------ adapter -------------------------------- *)

\* Ingredient::maybe_changed_after(revision) (lines 149-151).
MaybeChangedAfter(revision) ==
  /\ event' = [op |-> "maybe_changed_after", arg |-> revision,
               out |-> IF maybe_changed_after(revision) THEN 1 ELSE 0,
               path |-> "none"]
  /\ UNCHANGED <<recorded, table, key_lock, value_lock, locals, history>>

\* Ingredient::cycle_recovery_strategy (lines 153-155).
cycle_recovery_strategy == "Panic"

CycleRecoveryStrategy ==
  /\ event' = [op |-> "cycle_recovery_strategy", arg |-> 0, out |-> 0,
               path |-> cycle_recovery_strategy]
  /\ UNCHANGED <<table, key_lock, value_lock, locals, history, recorded>>

\* The lifecycle hooks an interned ingredient does not support.
UnsupportedOps ==
  {"mark_validated_output", "remove_stale_output", "reset_for_new_revision",
   "salsa_struct_deleted"}

\* Mutant of Unsupported: reset_for_new_revision clears the table, as it
\* does for an ingredient that is reset on every new revision.
Unsupported_Clears(op) ==
  /\ op = "reset_for_new_revision" => Idle
  /\ event' = [op |-> op, arg |-> 0, out |-> 0, path |-> "none"]
  /\ IF op = "reset_for_new_revision"
       THEN key_map' = EmptyMap /\ value_map' = EmptyMap
       ELSE UNCHANGED <<key_map, value_map>>
  /\ UNCHANGED <<counter, reset_at, key_lock, value_lock, locals, history,
                 recorded>>

\* mark_validated_output, remove_stale_output (unreachable!, lines 161-183),
\* reset_for_new_revision (&mut self) and salsa_struct_deleted (panic!,
\* lines 185-194).
Unsupported(op) ==
  /\ op = "reset_for_new_revision" => Idle
  /\ event' = [op |-> op, arg |-> 0, out |-> Panicked, path |-> "none"]
  /\ UNCHANGED <<table, key_lock, value_lock, locals, history, recorded>>

(* ------------------------------ Spec ----------------------------------- *)

Next ==
  \/ \E t \in Threads, v \in Values : InternReport(t, v)
  \/ \E t \in Threads : InternGet(t)
  \/ \E t \in Threads : InternEntry(t)
  \/ \E t \in Threads : InternFetchAdd(t)
  \/ \E t \in Threads : InternValueInsert(t)
  \/ \E t \in Threads : InternPublish(t)
  \/ \E revision \in Revisions : Reset(revision)
  \/ \E t \in Threads, id \in Ids : DataReport(t, id)
  \/ \E t \in Threads : DataGet(t)
  \/ \E t \in Threads : DataReturn(t)
  \/ \E revision \in Revisions : MaybeChangedAfter(revision)
  \/ CycleRecoveryStrategy
  \/ \E op \in UnsupportedOps : Unsupported(op)

Spec == Init /\ [][Next]_vars

\* The steps of the call thread t is in.
Step(t) ==
  \/ InternGet(t)
  \/ InternEntry(t)
  \/ InternFetchAdd(t)
  \/ InternValueInsert(t)
  \/ InternPublish(t)
  \/ DataGet(t)
  \/ DataReturn(t)

\* Concurrent intern and data calls alone (&self).
NextCalls ==
  \/ \E t \in Threads, v \in Values : InternReport(t, v)
  \/ \E t \in Threads, id \in Ids : DataReport(t, id)
  \/ \E t \in Threads : Step(t)

\* Fair scheduling: a thread whose next step is possible again and again
\* (a shard lock that keeps being released) eventually takes it.
FairSpec == Init /\ [][NextCalls]_vars /\ \A t \in Threads : SF_vars(Step(t))

\* Thread t waits for a shard lock another thread holds.
Blocked(t) ==
  \/ /\ pc[t] \in {"intern_get", "intern_entry"}
     /\ key_lock[key_shard(data[t])] # NoThread
  \/ /\ pc[t] = "intern_value_insert"
     /\ value_lock[value_shard(next_id[t])] # {}

TypeOK ==
  /\ DOMAIN key_map \subseteq Values
  /\ DOMAIN value_map \subseteq Ids
  /\ counter \in Ids
  /\ reset_at \in Revisions

(* ------------------------------ claims --------------------------------- *)

\* C1 (convergence): within one reset epoch no value is returned with two
\* different ids by intern, whichever path each call took, and every id
\* intern returned for a value is the one key_map holds for it.
C1_Convergence ==
  /\ \A p \in returned : \A q \in returned : p[1] = q[1] => p[2] = q[2]
  /\ returned \subseteq Pairs(key_map)

\* A call that lost the race (Occupied entry) returned the winner's id.
C1_Witness ==
  /\ event.op = "intern"
  /\ event.path = "occupied"
  /\ <<event.arg, event.out>> \in returned

\* C2 (injectivity): within one reset epoch no id is returned for two
\* different values, and key_map never maps two different values to one id.
C2_Injectivity ==
  /\ \A p \in returned : \A q \in returned : p[2] = q[2] => p[1] = q[1]
  /\ \A v1 \in DOMAIN key_map : \A v2 \in DOMAIN key_map :
        key_map[v1] = key_map[v2] => v1 = v2

\* Two different values were interned in one epoch, and a third allocation
\* collided with a live id and was stopped by the assertion.
C2_Witness ==
  /\ Cardinality(returned) >= 2
  /\ event.op = "intern"
  /\ event.out = Panicked

\* C3 (round trip): whenever data(i) returns, it returns v for every pair
\* (v, i) that intern returned since the last reset; and every such i is
\* still in value_map.
C3_RoundTrip ==
  /\ \A p \in returned : p[2] \in DOMAIN value_map
  /\ event.op = "data" =>
       \A p \in returned : p[2] = event.arg => event.out = p[1]

\* C4 (publication order): in every state every entry v -> i of key_map has
\* the matching entry i -> v in value_map.
C4_PublicationOrder ==
  \A v \in DOMAIN key_map :
    /\ key_map[v] \in DOMAIN value_map
    /\ value_map[key_map[v]] = v

\* C5 (bijection): while no call is in progress key_map and value_map are
\* inverses of each other; while interns are in progress value_map exceeds
\* the inverse of key_map only by the entries those calls are publishing.
InFlight ==
  {<<data[t], next_id[t]>> : t \in {u \in Threads : pc[u] = "intern_assert"}}

Inverse(m) == {<<m[k], k>> : k \in DOMAIN m}

C5_Bijection ==
  /\ Pairs(key_map) \subseteq Inverse(value_map)
  /\ Inverse(value_map) \subseteq Pairs(key_map) \cup InFlight
  /\ Idle => Cardinality(DOMAIN key_map) = Cardinality(DOMAIN value_map)

\* C6 (post-reset isolation): a successful reset leaves both indices empty;
\* data of an id that was in the table at an earlier reset panics; intern
\* never returns for a value the id that value had at an earlier reset.
C6_PostResetIsolation ==
  [][/\ \A r \in Revisions :
          (Reset(r) /\ r > reset_at) =>
             (key_map' = EmptyMap /\ value_map' = EmptyMap)
     /\ (event'.op = "data" /\ event'.arg \in {p[2] : p \in retired'}) =>
          event'.out = Panicked
     /\ returned' \cap retired' = {}]_vars

\* C7 (reset monotonicity): a reset whose revision is not greater than
\* reset_at panics and changes neither index, the counter nor reset_at;
\* reset_at never decreases and a successful reset strictly increases it.
C7_ResetMonotonic ==
  [][/\ \A r \in Revisions :
          (Reset(r) /\ ~(r > reset_at)) =>
             (UNCHANGED table /\ event'.out = Panicked)
     /\ \A r \in Revisions :
          (Reset(r) /\ r > reset_at) => (reset_at' > reset_at /\ reset_at' = r)
     /\ reset_at' >= reset_at]_vars

\* A reset was refused on a table that holds entries and was reset before.
C7_Witness ==
  /\ event.op = "reset"
  /\ event.out = Panicked
  /\ resets # {}
  /\ key_map # EmptyMap

\* C8 (freshness): maybe_changed_after(r) is true exactly when a reset
\* with a revision greater than r has succeeded, whatever intern and data
\* calls ran.
C8_Freshness ==
  /\ \A r \in Revisions :
        maybe_changed_after(r) <=> (\E x \in resets : x > r)
  /\ event.op = "maybe_changed_after" =>
        (event.out = 1 <=> (\E x \in resets : x > event.arg))

\* maybe_changed_after answered true after a reset and later interns.
C8_Witness ==
  /\ event.op = "maybe_changed_after"
  /\ event.out = 1
  /\ returned # {}

\* C9 (ids never reused): the counter never decreases, and every id
\* fetch_add hands out is greater than every id handed out before, across
\* resets.
C9_IdsNeverReused ==
  [][/\ counter' >= counter
     /\ \A t \in Threads :
          InternFetchAdd(t) => \A i \in allocated : next_id'[t] > i]_vars

\* C10 (exhaustion is fatal): an allocating intern whose fetch_add came
\* after the counter had handed out its whole range never returns an id,
\* resets or not.
C10_ExhaustionFatal ==
  (event.op = "intern" /\ event.path = "vacant_wrapped") =>
     event.out = Panicked

\* C11 (dependency registration): a thread inside intern or data has
\* reported exactly one tracked read, for this table's index, with maximum
\* durability and the current reset_at, from before its first access to a
\* map until it returns or panics; a thread outside a call has none pending.
C11_DependencyRegistration ==
  \A t \in Threads :
    IF pc[t] = "idle"
      THEN reads[t] = <<>>
      ELSE /\ Len(reads[t]) = 1
           /\ reads[t][1].index = "for_table(ingredient_index)"
           /\ reads[t][1].durability = "MAX"
           /\ reads[t][1].changed_at = reset_at
           /\ <<reset_at, resets>> \in recorded

\* After a reset, an intern on its allocation path and a data call about to
\* fail on an unknown id have each reported their read.
C11_Witness ==
  /\ resets # {}
  /\ \E t \in Threads : pc[t] = "intern_assert" /\ Len(reads[t]) = 1
  /\ \E t \in Threads :
       pc[t] = "data_get" /\ data[t] \notin DOMAIN value_map /\ Len(reads[t]) = 1

\* C12 (lookup of an unknown id): when value_map.get of data finds no entry
\* for the id, the call panics, returns no value and leaves key_map,
\* value_map, the counter and reset_at unchanged.
C12_UnknownIdPanics ==
  [][\A t \in Threads :
       (DataGet(t) /\ data[t] \notin DOMAIN value_map) =>
          /\ event'.op = "data"
          /\ event'.arg = data[t]
          /\ event'.out = Panicked
          /\ pc'[t] = "idle"
          /\ UNCHANGED table]_vars

\* data panicked on an id that was minted before the last reset, on a table
\* that holds entries again.
C12_Witness ==
  /\ event.op = "data"
  /\ event.out = Panicked
  /\ event.arg \in {p[2] : p \in retired}
  /\ key_map # EmptyMap

\* C13 (lock order): a thread that holds a value_map shard lock never takes
\* or reads a key_map shard; value_map.insert of intern runs only while the
\* same thread holds the write lock of its key's key_map shard.
HoldsValueLock(t) == \E s \in DOMAIN value_lock : t \in value_lock[s]

HoldsKeyLock(t) == \E s \in DOMAIN key_lock : key_lock[s] = t

C13_LockOrder ==
  [][\A t \in Threads :
       /\ (InternGet(t) \/ InternEntry(t)) => ~HoldsValueLock(t)
       /\ (HoldsKeyLock(t)' /\ ~HoldsKeyLock(t)) => ~HoldsValueLock(t)
       /\ InternValueInsert(t) =>
            (key_lock[key_shard(data[t])] = t /\ ~HoldsValueLock(t))
       /\ HoldsValueLock(t)' => ~HoldsKeyLock(t)']_vars

\* One thread is on the allocation path holding its key_map shard with the
\* value_map entry written, while another holds a value_map read guard.
C13_Witness ==
  /\ \E t \in Threads : pc[t] = "intern_assert" /\ HoldsKeyLock(t)
  /\ \E t \in Threads : pc[t] = "data_return" /\ HoldsValueLock(t)

\* C14 (deadlock freedom): in no state is every thread that is inside a
\* call waiting for a shard lock, and under fair scheduling every call that
\* was entered returns or panics.
C14_DeadlockFree ==
  /\ [](\A t \in Threads : pc[t] # "idle" =>
          \E u \in Threads : pc[u] # "idle" /\ ~Blocked(u))
  /\ \A t \in Threads : (pc[t] # "idle") ~> (pc[t] = "idle")

\* A thread waits for the key_map shard another thread holds on its
\* allocation path, after an earlier intern was stopped by the assertion.
C14_Witness ==
  /\ \E t \in Threads : Blocked(t)
  /\ \E t \in Threads : pc[t] = "intern_value_insert" /\ HoldsKeyLock(t)
  /\ event.out = Panicked

\* C15 (reset exclusivity): reset runs only while no intern or data call is
\* in progress and is one step; reset_at changes only in a step that empties
\* both maps, no entry leaves a map in any other step, and every call in
\* progress sees the reset_at it reported.
C15_ResetExclusive ==
  [][/\ \A r \in Revisions : Reset(r) => (Idle /\ Idle')
     /\ (reset_at' # reset_at) =>
          (Idle /\ key_map' = EmptyMap /\ value_map' = EmptyMap)
     /\ (~(DOMAIN key_map \subseteq DOMAIN key_map')
           \/ ~(DOMAIN value_map \subseteq DOMAIN value_map')) =>
          (Idle /\ key_map' = EmptyMap /\ value_map' = EmptyMap
                /\ reset_at' > reset_at)
     /\ \A t \in Threads :
          pc'[t] # "idle" => reads'[t][1].changed_at = reset_at']_vars

\* A successful reset emptied a table that held entries.
C15_Witness ==
  /\ event.op = "reset"
  /\ event.out = 0
  /\ retired # {}
  /\ key_map = EmptyMap
  /\ value_map = EmptyMap

\* C16 (dense allocation from zero): on a table that was never reset, when
\* no call is in progress the ids in key_map (the ids intern returned) are
\* exactly 0 .. k-1 for the k values interned and the counter equals k; an
\* intern that finds its value (get hit or Occupied entry) leaves the
\* counter alone.
C16_DenseFromZero ==
  /\ []((resets = {} /\ Idle) =>
          /\ {key_map[v] : v \in DOMAIN key_map}
               = {i \in Ids : i < Cardinality(DOMAIN key_map)}
          /\ {p[2] : p \in returned} = {key_map[v] : v \in DOMAIN key_map}
          /\ counter = Cardinality(DOMAIN key_map))
  /\ [][\A t \in Threads :
          ((InternGet(t) \/ InternEntry(t)) /\ data[t] \in DOMAIN key_map)
             => counter' = counter]_vars

\* C17 (unsupported lifecycle operations): mark_validated_output,
\* remove_stale_output, reset_for_new_revision and salsa_struct_deleted
\* panic whenever they are called and leave key_map, value_map, the counter
\* and reset_at unchanged; cycle_recovery_strategy reports Panic.
C17_UnsupportedOps ==
  [][/\ \A op \in UnsupportedOps :
          Unsupported(op) => (event'.op = op /\ event'.out = Panicked
                                /\ UNCHANGED table)
     /\ CycleRecoveryStrategy => (event'.path = "Panic" /\ UNCHANGED table)
     /\ (event'.op \in UnsupportedOps /\ event' # event) =>
          (event'.out = Panicked /\ UNCHANGED table)]_vars

\* reset_for_new_revision panicked on a table that holds entries.
C17_Witness ==
  /\ event.op = "reset_for_new_revision"
  /\ event.out = Panicked
  /\ key_map # EmptyMap
  /\ value_map # EmptyMap

\* C18 (entry stability): every step other than a reset keeps every entry
\* of value_map and of key_map: the key stays in the map, bound to the same
\* value.
C18_EntryStability ==
  [][\/ \E r \in Revisions : Reset(r)
     \/ /\ \A i \in DOMAIN value_map :
             i \in DOMAIN value_map' /\ value_map'[i] = value_map[i]
        /\ \A v \in DOMAIN key_map :
             v \in DOMAIN key_map' /\ key_map'[v] = key_map[v]]_vars

\* C19 (frame of the read-only operations): an intern that finds its value
\* (get hit, or Occupied entry), every step of data, and maybe_changed_after
\* leave key_map, value_map, the counter and reset_at unchanged.
C19_ReadOnlyFrame ==
  [][/\ \A t \in Threads :
          /\ (\E v \in Values : InternReport(t, v)) => UNCHANGED table
          /\ (InternGet(t) /\ data[t] \in DOMAIN key_map) => UNCHANGED table
          /\ (InternEntry(t) /\ data[t] \in DOMAIN key_map) => UNCHANGED table
          /\ (\E id \in Ids : DataReport(t, id)) => UNCHANGED table
          /\ DataGet(t) => UNCHANGED table
          /\ DataReturn(t) => UNCHANGED table
     /\ \A r \in Revisions : MaybeChangedAfter(r) => UNCHANGED table]_vars

\* An intern returned on the fast path after the counter had moved, and the
\* table holds entries.
C19_Witness ==
  /\ event.op = "intern"
  /\ event.path = "get"
  /\ allocated # {}
  /\ <<event.arg, event.out>> \in Pairs(key_map)

\* C20 (recorded reads are invalidated exactly by later resets): for every
\* tracked read ever reported with as-of revision a, maybe_changed_after(a)
\* is true exactly when a reset has succeeded since that report.
C20_ReadsInvalidatedByReset ==
  \A p \in recorded : maybe_changed_after(p[1]) <=> (resets # p[2])

\* One recorded read was invalidated by a later reset while a read recorded
\* after that reset, and followed by completed interns, is still valid.
C20_Witness ==
  /\ \E p \in recorded : resets # p[2] /\ maybe_changed_after(p[1])
  /\ \E p \in recorded : resets = p[2] /\ ~maybe_changed_after(p[1])
  /\ returned # {}

====
